---- MODULE Spec2Model ----
(***************************************************************************)
(* Lifecycle manager of a3sdt.py: the PID file, the process table, one     *)
(* command-line invocation at a time (main -> read_pid ->                  *)
(* check_for_orphaned_pid_file -> handler) and the logger processes that   *)
(* handle_start forks and that outlive the invocation that forked them.    *)
(***************************************************************************)
EXTENDS Integers, Sequences, FiniteSets, TLC

\* ---------------------------------------------------------------- bounds
MaxPid == 10            \* process ids are 9..MaxPid (one and two digits)
MaxGrace == 1           \* arma3_sigterm_timeout_seconds ranges over 0..MaxGrace
ExtraPolls == 1         \* the poll loop is followed for MaxGrace + ExtraPolls seconds
MaxInvocations == 2     \* command-line invocations in one behaviour
MaxManifests == 3       \* manifests of a configuration besides "default"

PIDS == 9..MaxPid
MaxWait == MaxGrace + ExtraPolls
Invocations == 1..MaxInvocations
\* logger 0 is the logger of a start that returned before the first invocation
LoggerIds == 0..MaxInvocations
Commands == {"start", "stop", "restart"}

\* ARMA3_EXISTING_PID = None
NoPid == 0

\* manifest names are numbers: 'default' and 1..MaxManifests
DefaultName == 0
ManifestNames == DefaultName..MaxManifests

\* desired_manifest is None (or empty)
NoName == -1

VARIABLES
    grace,      \* CONFIG['arma3_sigterm_timeout_seconds']
    pidfile,    \* CONFIG['arma3_pid_file']: [exists, text], text a digit sequence
    procs,      \* the process table: pid -> "none" | "server" | "foreign" | "denied"
    stubborn,   \* servers that ignore SIGTERM
    killed,     \* processes with a SIGKILL delivered and not yet dead
    cli,        \* the running (or last) command-line invocation
    loggers,    \* the logger process forked by invocation i
    ninv,       \* invocations begun so far
    mf,         \* a call of find_manifest: its arguments and its result
    pk          \* a run of a3bt.py's pack command: arguments, files, result

lifecycle == <<grace, pidfile, procs, stubborn, killed, cli, loggers, ninv>>
vars == <<grace, pidfile, procs, stubborn, killed, cli, loggers, ninv, mf, pk>>

\* ------------------------------------------------------- pure functions

\* '%s' % pid
RECURSIVE FormatPid(_)
FormatPid(n) == IF n < 10 THEN <<n>> ELSE FormatPid(n \div 10) \o <<n % 10>>

\* int(text): the value of a non-empty digit sequence
RECURSIVE ParsePid(_)
ParsePid(s) == IF Len(s) = 1 THEN s[1]
               ELSE 10 * ParsePid(SubSeq(s, 1, Len(s) - 1)) + s[Len(s)]

NoFile == [exists |-> FALSE, text |-> <<>>]

\* the process table entry of any number a PID file can hold
ProcState(pid) == IF pid \in PIDS THEN procs[pid] ELSE "none"

\* os.kill(pid, sig) raises ProcessLookupError
NoSuchProcess(pid) == ProcState(pid) = "none"

\* os.kill(pid, sig) raises PermissionError
NotPermitted(pid) == ProcState(pid) = "denied"

\* a probe that never reports a dead process
process_is_running_Always(pid) == TRUE

\* process_is_running: os.kill(pid, 0) raised no OSError
process_is_running(pid) == ~NoSuchProcess(pid) /\ ~NotPermitted(pid)

\* if ARMA3_EXISTING_PID: (handle_start)
AlreadyRunning(existing) == existing # NoPid

\* if not ARMA3_EXISTING_PID: (handle_stop)
NotRunning(existing) == existing = NoPid

\* an escalation test that is due one poll early
EscalationDue_Early(kill_wait_seconds) == kill_wait_seconds + 1 >= grace

\* if kill_wait_seconds >= CONFIG['arma3_sigterm_timeout_seconds']:
EscalationDue(kill_wait_seconds) == kill_wait_seconds >= grace

\* a cleanup that forgets the global and leaves the cached PID in place
ExistingAfterCleanup_Kept(existing) == existing

\* cleanup_pid_file: global ARMA3_EXISTING_PID; ARMA3_EXISTING_PID = None
ExistingAfterCleanup(existing) == NoPid

\* handlers[args.command]
Handler(cmd) == IF cmd = "start" THEN "handle_start" ELSE "handle_stop"

\* a restart that ends once its stop has returned
AfterStop_StopOnly(cmd) == "done"

\* where control goes when handle_stop returns normally
AfterStop(cmd) == IF cmd = "restart" THEN "handle_start" ELSE "done"

\* a handle_stop that returns to its caller where it should exit
AfterStopExit_Returns(cmd) == AfterStop(cmd)

\* where control goes after handle_stop's sys.exit(1)
AfterStopExit(cmd) == "done"

\* ------------------------------------------------------------ the state

NewCli(cmd) ==
    [cmd |-> cmd, pc |-> "main", existing |-> NoPid, kill_wait_seconds |-> 0,
     exit |-> -1, outcome |-> "running",
     liveAtIssue |-> {p \in PIDS : procs[p] = "server"},
     \* history of this invocation
     nTerm |-> 0, nKill |-> 0, killAt |-> {}, aliveAt |-> {},
     warnings |-> 0, deadAtCheck |-> FALSE, removed |-> FALSE, forked |-> FALSE,
     termStubborn |-> FALSE, vanished |-> FALSE, stoppedEntry |-> FALSE,
     stopFailed |-> FALSE, confirmedDead |-> FALSE]

NoLogger == [pc |-> "none", child |-> NoPid, linked |-> FALSE, saved |-> NoPid]

\* no call of find_manifest
\* no run of pack: the arguments (force_output_pbo_name and mission_sqm given
\* or not), the files before the run (a mission.sqm in the source directory,
\* the build path, the PBO path), what the packer will do (found on the PATH,
\* its return code, whether it writes the PBO), and the run so far
NoPack ==
    [pc |-> "idle", forced |-> FALSE, mission_sqm |-> FALSE, sqmInSource |-> FALSE,
     buildBefore |-> FALSE, pboBefore |-> FALSE,
     found |-> FALSE, rc |-> 0, writes |-> FALSE,
     pbo |-> FALSE, produced |-> FALSE, sqm |-> "none",
     exit |-> -1, outcome |-> "running"]

NoCall == [pc |-> "idle", manifests |-> {}, desired |-> NoName,
           result |-> [kind |-> "none", name |-> NoName]]

Init ==
    /\ grace \in 0..MaxGrace
    /\ pidfile = NoFile
    /\ procs = [p \in PIDS |-> "none"]
    /\ stubborn = {}
    /\ killed = {}
    /\ cli = [NewCli("start") EXCEPT !.pc = "idle"]
    /\ loggers = [i \in LoggerIds |-> NoLogger]
    /\ ninv = 0
    /\ mf = NoCall
    /\ pk = NoPack

\* sys.exit(code) or an uncaught exception ending the invocation
Exit(c, code, outcome) == [c EXCEPT !.pc = "done", !.exit = code, !.outcome = outcome]

\* os.remove(CONFIG['arma3_pid_file']): a logger that holds the file open
\* keeps writing to the removed file
Unlinked == [i \in LoggerIds |-> [loggers[i] EXCEPT !.linked = FALSE]]

\* pid_file.write at offset 0 of a file that holds old
WriteAtStart(old, new) ==
    IF Len(old) > Len(new) THEN new \o SubSeq(old, Len(new) + 1, Len(old)) ELSE new

\* the PID file names a live managed server
FileNamesLiveServer ==
    pidfile.exists /\ pidfile.text # <<>> /\ ProcState(ParsePid(pidfile.text)) = "server"

\* --------------------------------------------------------------- main

\* read_pid, as called first thing by main
ReadPid(c) ==
    IF ~pidfile.exists THEN [c EXCEPT !.pc = "check_orphan"]
    ELSE IF pidfile.text = <<>> THEN Exit(c, 1, "ValueError")
    ELSE [c EXCEPT !.pc = "check_orphan", !.existing = ParsePid(pidfile.text)]

\* a command is run once the previous one has returned: main up to read_pid()
Invoke(cmd) ==
    /\ cli.pc \in {"idle", "done"}
    /\ ninv < MaxInvocations
    /\ ninv' = ninv + 1
    /\ cli' = ReadPid(NewCli(cmd))
    /\ UNCHANGED <<grace, pidfile, procs, stubborn, killed, loggers, mf, pk>>

\* check_for_orphaned_pid_file, up to the liveness probe
CheckOrphan ==
    /\ cli.pc = "check_orphan"
    /\ cli' = IF ~pidfile.exists THEN [cli EXCEPT !.pc = Handler(cli.cmd),
                                                  !.stoppedEntry = TRUE]
              ELSE IF cli.existing = NoPid THEN Exit(cli, 1, "AssertionError")
              ELSE IF ~process_is_running(cli.existing)
                   THEN [cli EXCEPT !.pc = "orphan_cleanup",
                                    !.deadAtCheck = ProcState(cli.existing) = "none"]
              ELSE [cli EXCEPT !.pc = Handler(cli.cmd),
                               !.deadAtCheck = ProcState(cli.existing) = "none"]
    /\ UNCHANGED <<grace, pidfile, procs, stubborn, killed, loggers, ninv, mf, pk>>

\* check_for_orphaned_pid_file: log.warning, cleanup_pid_file
OrphanCleanup ==
    /\ cli.pc = "orphan_cleanup"
    /\ pidfile' = NoFile
    /\ loggers' = Unlinked
    /\ cli' = [cli EXCEPT !.pc = Handler(cli.cmd),
                          !.existing = ExistingAfterCleanup(cli.existing),
                          !.warnings = @ + 1, !.removed = TRUE,
                          !.stoppedEntry = TRUE]
    /\ UNCHANGED <<grace, procs, stubborn, killed, ninv, mf, pk>>

\* ------------------------------------------------------- handle_start

\* handle_start in the command-line process: the check, os.fork() and, in the
\* parent (pid != 0), the return from handle_start and main
HandleStart ==
    /\ cli.pc = "handle_start"
    /\ IF AlreadyRunning(cli.existing)
       THEN /\ cli' = Exit(cli, 1, "AlreadyRunning")
            /\ UNCHANGED loggers
       ELSE \E forkOk \in BOOLEAN :
              IF forkOk
              THEN /\ cli' = [Exit(cli, 0, "Started") EXCEPT !.forked = TRUE]
                   /\ loggers' = [loggers EXCEPT ![ninv] = [NoLogger EXCEPT !.pc = "spawn"]]
              ELSE /\ cli' = Exit(cli, 1, "ForkError")
                   /\ UNCHANGED loggers
    /\ UNCHANGED <<grace, pidfile, procs, stubborn, killed, ninv, mf, pk>>

\* a logger that records a PID even though the spawn raised
AfterSpawnFailure_Saves == "save_open"

\* create_subprocess_exec raised: save_pid is skipped, the exception reaches
\* handle_start's except: log.exception; sys.exit(1)
AfterSpawnFailure == "failed"

\* a save_pid that is handed the logger's own pid (os.getpid()), which is no
\* pid of a server
PidToSave_Self(i) == MaxPid + 1 + i

\* save_pid(process.pid): the pid of the process create_subprocess_exec made
PidToSave(i) == loggers[i].child

\* _launch_arma3_server in the forked child: asyncio.create_subprocess_exec
LoggerSpawn(i) ==
    /\ loggers[i].pc = "spawn"
    /\ \/ \E p \in PIDS, ignoresTerm \in BOOLEAN :
            /\ procs[p] = "none"
            /\ procs' = [procs EXCEPT ![p] = "server"]
            /\ stubborn' = IF ignoresTerm THEN stubborn \cup {p} ELSE stubborn
            /\ loggers' = [loggers EXCEPT ![i] = [@ EXCEPT !.pc = "save_open", !.child = p]]
       \/ \* the binary cannot be launched
          /\ loggers' = [loggers EXCEPT ![i] = [@ EXCEPT !.pc = AfterSpawnFailure]]
          /\ UNCHANGED <<procs, stubborn>>
    /\ UNCHANGED <<grace, pidfile, killed, cli, ninv, mf, pk>>

\* save_pid: open(CONFIG['arma3_pid_file'], 'w') creates or truncates the file
LoggerOpen(i) ==
    /\ loggers[i].pc = "save_open"
    /\ pidfile' = [exists |-> TRUE, text |-> <<>>]
    /\ loggers' = [loggers EXCEPT ![i] = [@ EXCEPT !.pc = "save_write", !.linked = TRUE]]
    /\ UNCHANGED <<grace, procs, stubborn, killed, cli, ninv, mf, pk>>

\* save_pid: pid_file.write('%s' % pid) and the close that flushes it
LoggerWrite(i) ==
    /\ loggers[i].pc = "save_write"
    /\ pidfile' = IF loggers[i].linked
                  THEN [pidfile EXCEPT !.text = WriteAtStart(@, FormatPid(PidToSave(i)))]
                  ELSE pidfile
    /\ loggers' = [loggers EXCEPT ![i] = [@ EXCEPT !.pc = "supervise", !.linked = FALSE,
                                                   !.saved = PidToSave(i)]]
    /\ UNCHANGED <<grace, procs, stubborn, killed, cli, ninv, mf, pk>>

\* asyncio.gather(_read_and_log, _read_and_log) ends at end of file on both
\* streams, when the server is gone; sys.exit(0)
LoggerExit(i) ==
    /\ loggers[i].pc = "supervise"
    /\ ProcState(loggers[i].child) # "server"
    /\ loggers' = [loggers EXCEPT ![i] = [@ EXCEPT !.pc = "exited", !.child = NoPid,
                                                   !.saved = NoPid]]
    /\ UNCHANGED <<grace, pidfile, procs, stubborn, killed, cli, ninv, mf, pk>>

\* -------------------------------------------------------- handle_stop

\* an error path that cleans the PID file up on its way out
FileAfterSignalError_Cleaned(f) == NoFile

\* os.kill raised in handle_stop: the exception leaves the function before
\* cleanup_pid_file() is reached
FileAfterSignalError(f) == f

\* os.kill(ARMA3_EXISTING_PID, sig) raises
SignalRaises(pid) == NoSuchProcess(pid) \/ NotPermitted(pid)

\* handle_stop up to os.kill(ARMA3_EXISTING_PID, signal.SIGTERM)
HandleStop ==
    /\ cli.pc = "handle_stop"
    /\ cli' = IF NotRunning(cli.existing)
              THEN [cli EXCEPT !.pc = AfterStopExit(cli.cmd), !.exit = 1,
                               !.outcome = "NotRunning", !.stopFailed = TRUE]
              ELSE IF NoSuchProcess(cli.existing)
              THEN [Exit(cli, 1, "ProcessLookupError") EXCEPT
                       !.nTerm = @ + 1, !.vanished = TRUE, !.stopFailed = TRUE]
              ELSE IF NotPermitted(cli.existing)
              THEN [Exit(cli, 1, "PermissionError") EXCEPT
                       !.nTerm = @ + 1, !.stopFailed = TRUE]
              ELSE [cli EXCEPT !.pc = "poll", !.nTerm = @ + 1,
                               !.termStubborn = cli.existing \in stubborn]
    /\ pidfile' = IF ~NotRunning(cli.existing) /\ SignalRaises(cli.existing)
                  THEN FileAfterSignalError(pidfile) ELSE pidfile
    /\ UNCHANGED <<grace, procs, stubborn, killed, loggers, ninv, mf, pk>>

\* while process_is_running(ARMA3_EXISTING_PID): ... time.sleep(1);
\* kill_wait_seconds += 1 (one iteration that sends no SIGKILL)
Poll ==
    /\ cli.pc = "poll"
    /\ IF process_is_running(cli.existing)
       THEN IF EscalationDue(cli.kill_wait_seconds)
            THEN cli' = [cli EXCEPT !.pc = "sigkill",
                                    !.aliveAt = @ \cup {cli.kill_wait_seconds}]
            ELSE /\ cli.kill_wait_seconds < MaxWait
                 /\ cli' = [cli EXCEPT !.kill_wait_seconds = @ + 1,
                                       !.aliveAt = @ \cup {cli.kill_wait_seconds}]
       ELSE cli' = [cli EXCEPT !.pc = "cleanup",
                               !.confirmedDead = ProcState(cli.existing) # "server"]
    /\ UNCHANGED <<grace, pidfile, procs, stubborn, killed, loggers, ninv, mf, pk>>

\* log.warning; os.kill(ARMA3_EXISTING_PID, signal.SIGKILL); time.sleep(1);
\* kill_wait_seconds += 1
SendSigkill ==
    /\ cli.pc = "sigkill"
    /\ cli.kill_wait_seconds < MaxWait
    /\ IF NoSuchProcess(cli.existing)
       THEN /\ cli' = [Exit(cli, 1, "ProcessLookupError") EXCEPT
                          !.nKill = @ + 1, !.killAt = @ \cup {cli.kill_wait_seconds},
                          !.vanished = TRUE, !.stopFailed = TRUE]
            /\ UNCHANGED killed
       ELSE IF NotPermitted(cli.existing)
       THEN /\ cli' = [Exit(cli, 1, "PermissionError") EXCEPT
                          !.nKill = @ + 1, !.killAt = @ \cup {cli.kill_wait_seconds},
                          !.stopFailed = TRUE]
            /\ UNCHANGED killed
       ELSE /\ cli' = [cli EXCEPT !.pc = "poll", !.nKill = @ + 1,
                                  !.killAt = @ \cup {cli.kill_wait_seconds},
                                  !.kill_wait_seconds = @ + 1]
            /\ killed' = killed \cup {cli.existing}
    /\ pidfile' = IF SignalRaises(cli.existing)
                  THEN FileAfterSignalError(pidfile) ELSE pidfile
    /\ UNCHANGED <<grace, procs, stubborn, loggers, ninv, mf, pk>>

\* cleanup_pid_file(); log.info('The Arma 3 server has been stopped.')
StopCleanup ==
    /\ cli.pc = "cleanup"
    /\ pidfile' = NoFile
    /\ loggers' = Unlinked
    /\ cli' = [cli EXCEPT !.pc = AfterStop(cli.cmd),
                          !.existing = ExistingAfterCleanup(cli.existing),
                          !.removed = TRUE,
                          !.exit = IF AfterStop(cli.cmd) = "done" THEN 0 ELSE @,
                          !.outcome = "Stopped"]
    /\ UNCHANGED <<grace, procs, stubborn, killed, ninv, mf, pk>>

\* ------------------------------------------------------ the environment

\* a server ends: on its own, on SIGTERM, or on a SIGKILL already delivered
ServerExits(p) ==
    /\ procs[p] = "server"
    /\ p \notin stubborn \/ p \in killed
    /\ procs' = [procs EXCEPT ![p] = "none"]
    /\ stubborn' = stubborn \ {p}
    /\ killed' = killed \ {p}
    /\ UNCHANGED <<grace, pidfile, cli, loggers, ninv, mf, pk>>

\* the pids the tool can probe or signal: the one in the PID file and the one
\* the running invocation has read
NamedPids ==
    {cli.existing} \cup (IF pidfile.text # <<>> THEN {ParsePid(pidfile.text)} ELSE {})

\* the operating system reuses a pid the tool still names for a process that
\* is not ours: one we may signal ("foreign") or one of another user ("denied")
ForeignStarts(p, kind) ==
    /\ procs[p] = "none"
    /\ p \in NamedPids
    /\ procs' = [procs EXCEPT ![p] = kind]
    /\ UNCHANGED <<grace, pidfile, stubborn, killed, cli, loggers, ninv, mf, pk>>

ForeignExits(p) ==
    /\ procs[p] \in {"foreign", "denied"}
    /\ procs' = [procs EXCEPT ![p] = "none"]
    /\ killed' = killed \ {p}
    /\ UNCHANGED <<grace, pidfile, stubborn, cli, loggers, ninv, mf, pk>>

Next ==
    \/ \E cmd \in Commands : Invoke(cmd)
    \/ CheckOrphan
    \/ OrphanCleanup
    \/ HandleStart
    \/ \E i \in LoggerIds : LoggerSpawn(i)
    \/ \E i \in LoggerIds : LoggerOpen(i)
    \/ \E i \in LoggerIds : LoggerWrite(i)
    \/ \E i \in LoggerIds : LoggerExit(i)
    \/ HandleStop
    \/ Poll
    \/ SendSigkill
    \/ StopCleanup
    \/ \E p \in PIDS : ServerExits(p)
    \/ \E p \in PIDS, kind \in {"foreign", "denied"} : ForeignStarts(p, kind)
    \/ \E p \in PIDS : ForeignExits(p)

Spec == Init /\ [][Next]_vars

\* ------------------------------------------- a start has just returned

\* the state right after a start issued in STOPPED has returned: its logger
\* (logger 0) has been forked and has not yet spawned the server
RaceInit ==
    /\ grace \in 0..MaxGrace
    /\ pidfile = NoFile
    /\ procs = [p \in PIDS |-> "none"]
    /\ stubborn = {}
    /\ killed = {}
    /\ cli = [Exit(NewCli("start"), 0, "Started") EXCEPT
                 !.liveAtIssue = {}, !.stoppedEntry = TRUE, !.forked = TRUE]
    /\ loggers = [i \in LoggerIds |->
                    IF i = 0 THEN [NoLogger EXCEPT !.pc = "spawn"] ELSE NoLogger]
    /\ ninv = 0
    /\ mf = NoCall
    /\ pk = NoPack

RaceSpec == RaceInit /\ [][Next]_vars

\* ------------------------------------------------------ find_manifest

\* manifests.values()[0]: a dict view cannot be indexed
SingleManifest(manifests) == [kind |-> "TypeError", name |-> NoName]

\* find_manifest(config, desired_manifest), config['manifests'] given by its keys
find_manifest(manifests, desired) ==
    IF desired # NoName
    THEN IF desired \in manifests
         THEN [kind |-> "manifest", name |-> desired]
         ELSE [kind |-> "error", name |-> NoName]
    ELSE IF DefaultName \in manifests
         THEN [kind |-> "manifest", name |-> DefaultName]
         ELSE IF Cardinality(manifests) = 1
              THEN SingleManifest(manifests)
              ELSE [kind |-> "none", name |-> NoName]

ManifestInit ==
    /\ grace = 0
    /\ pidfile = NoFile
    /\ procs = [p \in PIDS |-> "none"]
    /\ stubborn = {}
    /\ killed = {}
    /\ cli = [NewCli("start") EXCEPT !.pc = "idle", !.liveAtIssue = {}]
    /\ loggers = [i \in LoggerIds |-> NoLogger]
    /\ ninv = 0
    /\ \E manifests \in SUBSET ManifestNames, desired \in {NoName} \cup ManifestNames :
          mf = [NoCall EXCEPT !.pc = "call", !.manifests = manifests, !.desired = desired]
    /\ pk = NoPack

\* load_config: manifest = find_manifest(config, manifest_name)
FindManifest ==
    /\ mf.pc = "call"
    /\ mf' = [mf EXCEPT !.pc = "returned",
                        !.result = find_manifest(mf.manifests, mf.desired)]
    /\ UNCHANGED <<lifecycle, pk>>

ManifestNext == FindManifest

ManifestSpec == ManifestInit /\ [][ManifestNext]_vars

\* ------------------------------------------------- a3bt.py: Commands.pack

\* a run of pack that ends: error() and an uncaught exception both exit 1
PackExit(k, code, outcome) == [k EXCEPT !.pc = "done", !.exit = code, !.outcome = outcome]

\* if not os.path.exists(final_pbo_path): raise RuntimeError; else log
\* 'Finished building'
PackResult(k) ==
    IF ~k.pbo THEN PackExit(k, 1, "RuntimeError") ELSE PackExit(k, 0, "Finished")

\* one run of pack about to start. Without force_output_pbo_name the PBO path
\* carries the timestamp of this run and is taken to be free; a forced name
\* may be a file that is already there.
PackInit ==
    /\ grace = 0
    /\ pidfile = NoFile
    /\ procs = [p \in PIDS |-> "none"]
    /\ stubborn = {}
    /\ killed = {}
    /\ cli = [NewCli("start") EXCEPT !.pc = "idle", !.liveAtIssue = {}]
    /\ loggers = [i \in LoggerIds |-> NoLogger]
    /\ ninv = 0
    /\ mf = NoCall
    /\ \E forced, mission_sqm, sqmInSource, buildBefore, pboBefore, found, writes \in BOOLEAN,
          rc \in {0, 1} :
          /\ pboBefore => forced
          /\ pk = [NoPack EXCEPT !.pc = "copytree", !.forced = forced,
                                 !.mission_sqm = mission_sqm, !.sqmInSource = sqmInSource,
                                 !.buildBefore = buildBefore, !.pboBefore = pboBefore,
                                 !.found = found, !.rc = rc, !.writes = writes,
                                 !.pbo = pboBefore]

\* copytree(absolute_input_dir, relative_build_path): fails when the build
\* path is already there
PackCopytree ==
    /\ pk.pc = "copytree"
    /\ pk' = IF pk.buildBefore THEN PackExit(pk, 1, "FileExistsError")
             ELSE [pk EXCEPT !.pc = IF pk.mission_sqm THEN "mission_sqm" ELSE "run",
                             !.sqm = IF pk.sqmInSource THEN "source" ELSE "none"]
    /\ UNCHANGED <<lifecycle, mf>>

\* if args.mission_sqm: remove the copied mission.sqm and copy the given one
PackMissionSqm ==
    /\ pk.pc = "mission_sqm"
    /\ pk' = [pk EXCEPT !.pc = "run", !.sqm = "given"]
    /\ UNCHANGED <<lifecycle, mf>>

\* subprocess.run([pbo_packer, '-pack', build path, pbo path]): the return
\* code is not looked at; FileNotFoundError goes to error()
PackRunPacker ==
    /\ pk.pc = "run"
    /\ pk' = IF ~pk.found THEN PackExit(pk, 1, "PackerNotFound")
             ELSE [pk EXCEPT !.pc = "check", !.pbo = pk.pbo \/ pk.writes,
                             !.produced = pk.writes]
    /\ UNCHANGED <<lifecycle, mf>>

\* the check of final_pbo_path and the final log line
PackCheck ==
    /\ pk.pc = "check"
    /\ pk' = PackResult(pk)
    /\ UNCHANGED <<lifecycle, mf>>

PackNext == PackCopytree \/ PackMissionSqm \/ PackRunPacker \/ PackCheck

PackSpec == PackInit /\ [][PackNext]_vars

\* ---------------------------------------------------------- properties

CommandCompleted == cli.pc \in {"idle", "done"}
LiveServers == {p \in PIDS : procs[p] = "server"}
FileText == pidfile.text

\* C1: whenever a command has completed, the PID file exists iff a managed
\* server is live, the one tolerated deviation being a PID file that names a
\* dead process; a live server is never without a PID file once start returned.
C1_PidFileIffServerLive ==
    CommandCompleted =>
        \/ pidfile.exists <=> LiveServers # {}
        \/ /\ pidfile.exists
           /\ FileText # <<>>
           /\ ProcState(ParsePid(FileText)) = "none"

\* C2: a start issued while a server is live, and that stays live, forks
\* nothing and ends with a nonzero exit code; at most one managed server
\* process is live at any time.
C2_AtMostOneServer ==
    /\ (cli.cmd = "start" /\ cli.liveAtIssue \cap LiveServers # {}) =>
          /\ ~cli.forked
          /\ cli.pc = "done" => cli.exit = 1
    /\ Cardinality(LiveServers) <= 1

\* C3: a start invocation has returned only if the PID of the server it
\* spawns (or is about to spawn) has been written to the PID file.
C3_StartReturnsAfterPidRecorded ==
    (cli.cmd = "start" /\ cli.pc = "done" /\ cli.outcome = "Started")
        => loggers[ninv].pc \notin {"spawn", "save_open", "save_write"}

\* C4: stop sends SIGKILL exactly at the polls that find the process alive
\* with kill_wait_seconds at or past the grace period, and never at a poll
\* below the grace period, for every grace period including 0.
C4_EscalationOnlyAtDeadline ==
    /\ \A k \in cli.killAt : k >= grace
    /\ cli.killAt \subseteq cli.aliveAt
    /\ cli.pc # "sigkill" => cli.killAt = {k \in cli.aliveAt : k >= grace}

C4_Witness ==
    /\ cli.killAt # {}
    /\ \E k \in cli.aliveAt : k < grace

\* C5: a stop that has stopped a server that ignores SIGTERM has sent exactly
\* one SIGTERM and exactly one SIGKILL, the SIGKILL when kill_wait_seconds
\* reached the grace period and on no later poll, has removed the PID file and
\* exits 0.
C5_ExactlyOneKill ==
    (cli.cmd = "stop" /\ cli.outcome = "Stopped" /\ cli.termStubborn) =>
        /\ cli.nTerm = 1
        /\ cli.nKill = 1
        /\ cli.killAt = {grace}
        /\ cli.removed
        /\ cli.exit = 0

\* C6: when the recorded process is gone at the moment stop sends it a
\* signal, stop succeeds: it removes the PID file and exits 0.
C6_VanishedIsSuccess ==
    (cli.pc = "done" /\ cli.vanished) => (cli.removed /\ cli.exit = 0)

\* C7: a stop whose handler is entered in STOPPED (no PID file, or an orphaned
\* PID file just cleaned up) sends no signal and ends with the not-running
\* error and exit code 1.
C7_StopWhenStopped ==
    (cli.cmd = "stop" /\ cli.stoppedEntry) =>
        /\ cli.nTerm = 0
        /\ cli.nKill = 0
        /\ \/ cli.pc = "handle_stop"
           \/ cli.pc = "done" /\ cli.outcome = "NotRunning" /\ cli.exit = 1

C7_Witness ==
    /\ cli.cmd = "stop"
    /\ cli.pc = "done"
    /\ cli.stoppedEntry
    /\ cli.warnings = 1

\* C8: an invocation that finds a PID file whose recorded PID is no process
\* removes the file and logs one warning before its handler runs, and then
\* acts as in STOPPED: start forks the logger, stop and restart fail with the
\* not-running error without signalling.
C8_OrphanThenAsStopped ==
    cli.deadAtCheck =>
        \/ cli.pc = "orphan_cleanup" /\ cli.warnings = 0 /\ ~cli.removed
        \/ /\ cli.warnings = 1
           /\ cli.removed
           /\ cli.stoppedEntry
           /\ cli.nTerm = 0
           /\ cli.nKill = 0
           /\ cli.cmd = "start" =>
                \/ cli.pc = "handle_start" /\ ~cli.forked
                \/ cli.pc = "done" /\ cli.outcome = "Started" /\ cli.forked
                \/ cli.pc = "done" /\ cli.outcome = "ForkError" /\ ~cli.forked
           /\ cli.cmd # "start" =>
                \/ cli.pc = "handle_stop"
                \/ /\ cli.pc = "done"
                   /\ cli.outcome = "NotRunning"
                   /\ cli.exit = 1
                   /\ ~cli.forked

C8_Witness ==
    /\ cli.deadAtCheck
    /\ cli.pc = "done"
    /\ cli.cmd = "restart"
    /\ cli.warnings = 1
    /\ ~pidfile.exists

\* C9: when the stop inside restart fails, restart ends there with a nonzero
\* exit code: handle_start is not run, nothing is forked or spawned.
C9_RestartStopsOnStopFailure ==
    (cli.cmd = "restart" /\ cli.stopFailed) =>
        /\ cli.pc = "done"
        /\ cli.exit # 0
        /\ ~cli.forked
        /\ loggers[ninv].pc = "none"

C9_Witness ==
    /\ cli.cmd = "restart"
    /\ cli.stopFailed
    /\ cli.outcome = "NotRunning"
    /\ ~pidfile.exists
    /\ LiveServers = {}

\* C10: a start whose server binary cannot be spawned exits nonzero.
C10_SpawnFailureFailsStart ==
    (ninv > 0 /\ cli.cmd = "start" /\ cli.pc = "done" /\ loggers[ninv].pc = "failed")
        => cli.exit # 0

\* C11: a logger whose spawn failed never opens or writes the PID file: only a
\* logger that holds the pid of a server it spawned reaches save_pid, and while
\* no logger has got past a successful spawn and open there is no PID file.
C11_NoPidFileWithoutSpawn ==
    /\ \A i \in LoggerIds :
          loggers[i].pc \in {"save_open", "save_write", "supervise"}
              => loggers[i].child \in PIDS
    /\ \A i \in LoggerIds :
          loggers[i].pc = "failed" => (loggers[i].child = NoPid /\ ~loggers[i].linked)
    /\ (\A i \in LoggerIds : loggers[i].pc \in {"none", "spawn", "failed", "save_open"})
          => ~pidfile.exists

C11_Witness ==
    /\ ninv > 0
    /\ cli.cmd = "start"
    /\ cli.pc = "done"
    /\ cli.stoppedEntry
    /\ loggers[ninv].pc = "failed"
    /\ ~pidfile.exists

\* C12: at every step that removes the PID file (orphan cleanup or the end of
\* stop) the process the file names is not a live server.
C12_DeleteOnlyAfterDeath ==
    [][(pidfile.exists /\ ~pidfile'.exists) => ~FileNamesLiveServer]_vars

SignalDenied == cli.outcome = "PermissionError"

\* C13: a stop whose signal send raises PermissionError ends with exit code 1
\* and has not removed the PID file, and the step in which the send fails
\* leaves the PID file present and unchanged.
C13_SignalErrorKeepsFile ==
    /\ [](SignalDenied => (cli.exit = 1 /\ cli.pc = "done" /\ ~cli.removed))
    /\ [][(~SignalDenied /\ SignalDenied') => (pidfile.exists /\ pidfile' = pidfile)]_vars

C13_Witness ==
    /\ SignalDenied
    /\ cli.cmd = "stop"
    /\ pidfile.exists
    /\ pidfile.text = FormatPid(cli.existing)

\* C14: a stop that is past the probe of the recorded pid (the process was
\* found live, the server RUNNING) completes only by removing the PID file and
\* exiting 0.
C14_StopOnRunningSucceeds ==
    [][(/\ cli.cmd = "stop"
        /\ cli.pc \in {"handle_stop", "poll", "sigkill", "cleanup"}
        /\ ~NotRunning(cli.existing)
        /\ cli'.pc = "done")
          => (cli'.removed /\ cli'.exit = 0)]_vars

\* C15: an invocation that finds the PID file present reads a complete PID
\* from it: it never fails on an empty file and what it reads is a pid that a
\* logger wrote.
C15_ReadsCompletePid ==
    /\ cli.outcome # "ValueError"
    /\ cli.existing # NoPid => cli.existing \in PIDS

OpenedBy == {j \in LoggerIds : loggers[j].pc \in {"save_write", "supervise", "exited"}}

\* C16: a logger that supervises has already written the PID file, the value
\* it passed to save_pid is the pid of the server it spawned, and while no
\* other logger has opened the file, the file (if present) reads back as that
\* pid.
C16_WriteBeforeSupervise ==
    \A i \in LoggerIds :
        loggers[i].pc = "supervise" =>
            /\ loggers[i].child \in PIDS
            /\ loggers[i].saved = loggers[i].child
            /\ (OpenedBy = {i} /\ pidfile.exists)
                   => (pidfile.text # <<>> /\ ParsePid(pidfile.text) = loggers[i].child)

C16_Witness ==
    \E i \in LoggerIds :
        /\ loggers[i].pc = "supervise"
        /\ loggers[i].child = 10
        /\ procs[10] = "server"
        /\ pidfile.text = <<1, 0>>
        /\ cli.cmd = "stop"
        /\ cli.nTerm = 1
        /\ cli.existing = 10

\* C17: a restart runs handle_start only after its stop has found the
\* recorded process gone and removed the PID file, with the cached PID reset;
\* it forks only then, it is never rejected as already running, and it never
\* ends after the stop alone.
C17_RestartStartsAfterStop ==
    cli.cmd = "restart" =>
        /\ cli.pc = "handle_start" =>
              (cli.removed /\ cli.confirmedDead /\ cli.existing = NoPid /\ ~cli.forked)
        /\ cli.forked => (cli.removed /\ cli.confirmedDead)
        /\ cli.pc = "done" => cli.outcome \notin {"AlreadyRunning", "Stopped"}

C17_Witness ==
    /\ cli.cmd = "restart"
    /\ cli.nTerm = 1
    /\ cli.confirmedDead
    /\ cli.outcome = "Started"
    /\ loggers[ninv].pc = "supervise"
    /\ Cardinality(LiveServers) = 1

Rejected == cli.cmd = "start" /\ cli.outcome = "AlreadyRunning"

\* C18: a start rejected as already running has sent no signal, forked
\* nothing and removed nothing, and the step that rejects it leaves the PID
\* file, the process table and the loggers as they were.
C18_RejectedStartChangesNothing ==
    /\ [](Rejected =>
            /\ cli.exit = 1
            /\ cli.nTerm = 0
            /\ cli.nKill = 0
            /\ cli.warnings = 0
            /\ ~cli.forked
            /\ ~cli.removed)
    /\ [][(~Rejected /\ Rejected') =>
            /\ pidfile' = pidfile
            /\ procs' = procs
            /\ killed' = killed
            /\ loggers' = loggers]_vars

C18_Witness ==
    /\ Rejected
    /\ pidfile.text = FormatPid(cli.existing)
    /\ ProcState(cli.existing) = "server"

\* the manifest selection priority of the comment above find_manifest
DocumentedManifest(manifests, desired) ==
    IF desired # NoName
    THEN IF desired \in manifests
         THEN [kind |-> "manifest", name |-> desired]
         ELSE [kind |-> "error", name |-> NoName]
    ELSE IF DefaultName \in manifests
         THEN [kind |-> "manifest", name |-> DefaultName]
         ELSE IF Cardinality(manifests) = 1
              THEN [kind |-> "manifest", name |-> CHOOSE n \in manifests : TRUE]
              ELSE [kind |-> "none", name |-> NoName]

\* C19: find_manifest returns the named manifest (an error if there is none of
\* that name), else 'default' if present, else the only manifest if there is
\* exactly one, else nothing.
C19_ManifestPriority ==
    mf.pc = "returned" => mf.result = DocumentedManifest(mf.manifests, mf.desired)

\* C20: no step of an invocation takes a live process that is not a server of
\* this tool for the running server (the probe passing on it), and no step
\* delivers a signal of stop to such a process.
C20_NeverTouchesForeign ==
    [][~(/\ ProcState(cli.existing) = "foreign"
         /\ \/ cli.pc = "check_orphan" /\ cli'.pc = Handler(cli.cmd)
            \/ cli.pc = "handle_stop" /\ cli'.nTerm = cli.nTerm + 1
            \/ cli.pc = "sigkill" /\ cli'.nKill = cli.nKill + 1)]_vars

\* C21: pack reports success ('Finished building', exit 0) only if the packer
\* wrote the PBO at the output path during this run.
C21_FinishedOnlyIfProduced ==
    pk.outcome = "Finished" => pk.produced
====
